---- MODULE Spec2Model ----
(***************************************************************************)
(* A model of the fsm package (src/fsm/fsm.go): the Builder that assembles *)
(* a finite automaton (Q, Sigma, q0, F, delta) and the FSM that executes   *)
(* it.  A Builder holds a pointer to one FSM object; Build hands out that  *)
(* pointer.  The heap is modelled explicitly so that aliasing is visible.  *)
(***************************************************************************)
EXTENDS Integers, Sequences, FiniteSets, TLC

(***************************************************************************)
(* Bounds of the model.                                                    *)
(***************************************************************************)
\* longest input string (in runes) handed to ProcessString / ProcessInput
MaxLen == 2
\* longest variadic argument list handed to AddStates/AddSymbols/AddFinalStates
MaxArgs == 2
\* largest number of FSM pointers, returned by Build, that the caller keeps
MaxBuilds == 2
\* largest number of entries of one AddTransitions batch
MaxBatch == 2
\* longest binary string handed to the modulo-three automaton
Mod3MaxLen == 4

(***************************************************************************)
(* Labels.  State and Symbol are Go strings; "" is the zero value of both. *)
(***************************************************************************)
StateLabels == {"", "q0"}
SymbolLabels == {"a", "b"}

\* An input string is modelled as the runes its range loop yields.  These are
\* the runes inputs are made of: 'a', 'b' and 'c', the last of which is never
\* declared as a symbol.
Runes == {97, 98, 99}

\* the runes of a binary string: '0' and '1'
BinaryRunes == {48, 49}

\* Symbol(char): the conversion of a rune to a string holds the rune's UTF-8
\* encoding, a one-rune string (U+FFFD for a rune that is not valid)
SymbolOfRune(r) ==
    CASE r = 48 -> "0"
      [] r = 49 -> "1"
      [] r = 97 -> "a"
      [] r = 98 -> "b"
      [] r = 99 -> "c"
      [] OTHER -> "\\uFFFD"

SeqsUpTo(S, n) == UNION {[1..k -> S] : k \in 0..n}

Range(s) == {s[i] : i \in DOMAIN s}

\* the sequences that list each member of the finite set S exactly once
Perms(S) ==
    {p \in [1..Cardinality(S) -> S] : \A i, j \in DOMAIN p : i # j => p[i] # p[j]}

Inputs == SeqsUpTo(Runes, MaxLen)
StateArgs == SeqsUpTo(StateLabels, MaxArgs)
SymbolArgs == SeqsUpTo(SymbolLabels, MaxArgs)

(***************************************************************************)
(* Errors: fmt.Errorf's format string followed by its arguments; nil is    *)
(* the empty tuple.                                                        *)
(***************************************************************************)
Nil == <<>>
ErrStateNotInSet(q) == <<"state %s not in state set", q>>
ErrNextStateNotInSet(q) == <<"next state %s not in state set", q>>
ErrSymbolNotInAlphabet(a) == <<"symbol %s not in alphabet", a>>
ErrAlreadyDefined(s, a) == <<"transition d(%s, %s) already defined", s, a>>
ErrNoStates == <<"FSM must have at least one state">>
ErrNoAlphabet == <<"FSM must have at least one symbol in alphabet">>
ErrNoInitialState == <<"FSM must have an initial state">>
ErrNoFinalState == <<"FSM must have at least one final state">>
ErrInitialNotInStates == <<"initial state must be in state set">>
ErrNotDefined(s, a) == <<"transition d(%s, %s) is not defined", s, a>>
ErrNoTransition(s, a) == <<"no transition defined for d(%s, %s)", s, a>>

(***************************************************************************)
(* The FSM object.  The maps to bool only ever hold true, so they are sets;*)
(* transitions is a function whose domain is the set of registered keys.   *)
(***************************************************************************)
EmptyMap == [k \in {} |-> ""]

NewFSM ==
    [states       |-> {},
     alphabet     |-> {},
     initialState |-> "",
     finalStates  |-> {},
     transitions  |-> EmptyMap,
     currentState |-> ""]

\* TransitionKey{State: s, Symbol: a}
TransitionKey(s, a) == <<s, a>>

\* the map with key k set to v
MapPut(m, k, v) == [x \in (DOMAIN m) \cup {k} |-> IF x = k THEN v ELSE m[x]]

(***************************************************************************)
(* Builder operations, as functions of the FSM object b.fsm points to.     *)
(* Each yields the object afterwards and the error returned.               *)
(***************************************************************************)
\* AddStatesF replacing the state set by the labels given
AddStatesF_Replace(f, sts) == [f EXCEPT !.states = Range(sts)]

AddStatesF(f, sts) == [f EXCEPT !.states = @ \cup Range(sts)]

AddSymbolsF(f, syms) == [f EXCEPT !.alphabet = @ \cup Range(syms)]

\* SetInitialStateF without the membership check
SetInitialStateF_Unchecked(f, q) ==
    [fsm |-> [f EXCEPT !.initialState = q], err |-> Nil]

\* SetInitialStateF recording the label also when it reports that it is not a
\* state
SetInitialStateF_RecordAnyway(f, q) ==
    [fsm |-> [f EXCEPT !.initialState = q],
     err |-> IF q \notin f.states THEN ErrStateNotInSet(q) ELSE Nil]

SetInitialStateF(f, q) ==
    IF q \notin f.states
    THEN [fsm |-> f, err |-> ErrStateNotInSet(q)]
    ELSE [fsm |-> [f EXCEPT !.initialState = q], err |-> Nil]

\* AddFinalStatesF adding nothing unless every label is a state
AddFinalStatesF_AllOrNothing(f, sts) ==
    LET bad == {k \in DOMAIN sts : sts[k] \notin f.states}
    IN  IF bad # {}
        THEN [fsm |-> f,
              err |-> ErrStateNotInSet(sts[CHOOSE k \in bad : \A j \in bad : k <= j])]
        ELSE [fsm |-> [f EXCEPT !.finalStates = @ \cup Range(sts)], err |-> Nil]

RECURSIVE AddFinalStatesF(_, _)
AddFinalStatesF(f, sts) ==
    IF sts = <<>> THEN [fsm |-> f, err |-> Nil]
    ELSE IF Head(sts) \notin f.states
         THEN [fsm |-> f, err |-> ErrStateNotInSet(Head(sts))]
         ELSE AddFinalStatesF([f EXCEPT !.finalStates = @ \cup {Head(sts)}],
                              Tail(sts))

\* AddTransitionF checking the symbol before the next state
AddTransitionF_SymbolFirst(f, s, a, n) ==
    IF s \notin f.states THEN [fsm |-> f, err |-> ErrStateNotInSet(s)]
    ELSE IF a \notin f.alphabet THEN [fsm |-> f, err |-> ErrSymbolNotInAlphabet(a)]
    ELSE IF n \notin f.states THEN [fsm |-> f, err |-> ErrNextStateNotInSet(n)]
    ELSE IF TransitionKey(s, a) \in DOMAIN f.transitions
         THEN [fsm |-> f, err |-> ErrAlreadyDefined(s, a)]
         ELSE [fsm |-> [f EXCEPT !.transitions = MapPut(@, TransitionKey(s, a), n)],
               err |-> Nil]

\* AddTransitionF without the check of the next state
AddTransitionF_AnyTarget(f, s, a, n) ==
    IF s \notin f.states THEN [fsm |-> f, err |-> ErrStateNotInSet(s)]
    ELSE IF a \notin f.alphabet THEN [fsm |-> f, err |-> ErrSymbolNotInAlphabet(a)]
    ELSE IF TransitionKey(s, a) \in DOMAIN f.transitions
         THEN [fsm |-> f, err |-> ErrAlreadyDefined(s, a)]
         ELSE [fsm |-> [f EXCEPT !.transitions = MapPut(@, TransitionKey(s, a), n)],
               err |-> Nil]

\* AddTransitionF without the check that the key is free
AddTransitionF_Overwrite(f, s, a, n) ==
    IF s \notin f.states THEN [fsm |-> f, err |-> ErrStateNotInSet(s)]
    ELSE IF n \notin f.states THEN [fsm |-> f, err |-> ErrNextStateNotInSet(n)]
    ELSE IF a \notin f.alphabet THEN [fsm |-> f, err |-> ErrSymbolNotInAlphabet(a)]
    ELSE [fsm |-> [f EXCEPT !.transitions = MapPut(@, TransitionKey(s, a), n)],
          err |-> Nil]

AddTransitionF(f, s, a, n) ==
    IF s \notin f.states THEN [fsm |-> f, err |-> ErrStateNotInSet(s)]
    ELSE IF n \notin f.states THEN [fsm |-> f, err |-> ErrNextStateNotInSet(n)]
    ELSE IF a \notin f.alphabet THEN [fsm |-> f, err |-> ErrSymbolNotInAlphabet(a)]
    ELSE IF TransitionKey(s, a) \in DOMAIN f.transitions
         THEN [fsm |-> f, err |-> ErrAlreadyDefined(s, a)]
         ELSE [fsm |-> [f EXCEPT !.transitions = MapPut(@, TransitionKey(s, a), n)],
               err |-> Nil]

\* AddTransitionsF going on with the next entry after one that failed
RECURSIVE AddTransitionsF_SkipFailed(_, _)
AddTransitionsF_SkipFailed(f, entries) ==
    IF entries = <<>> THEN [fsm |-> f, err |-> Nil]
    ELSE LET e == Head(entries)
             r == AddTransitionF(f, e[1], e[2], e[3])
             rest == AddTransitionsF_SkipFailed(r.fsm, Tail(entries))
         IN  IF r.err # Nil THEN [fsm |-> rest.fsm, err |-> r.err] ELSE rest

\* AddTransitions over the entries in the order the loops visit them: an entry
\* is <<state, symbol, nextState>>
RECURSIVE AddTransitionsF(_, _)
AddTransitionsF(f, entries) ==
    IF entries = <<>> THEN [fsm |-> f, err |-> Nil]
    ELSE LET e == Head(entries)
             r == AddTransitionF(f, e[1], e[2], e[3])
         IN  IF r.err # Nil THEN r ELSE AddTransitionsF(r.fsm, Tail(entries))

\* the pairs of the cross product with no transition
MissingPairs(f) ==
    {k \in f.states \X f.alphabet : k \notin DOMAIN f.transitions}

\* BuildPrecheck with the final-state check moved before the initial-state check
BuildPrecheck_FinalFirst(f) ==
    IF Cardinality(f.states) = 0 THEN ErrNoStates
    ELSE IF Cardinality(f.alphabet) = 0 THEN ErrNoAlphabet
    ELSE IF Cardinality(f.finalStates) = 0 THEN ErrNoFinalState
    ELSE IF f.initialState = "" THEN ErrNoInitialState
    ELSE IF f.initialState \notin f.states THEN ErrInitialNotInStates
    ELSE Nil

\* the checks of Build before the totality scan
BuildPrecheck(f) ==
    IF Cardinality(f.states) = 0 THEN ErrNoStates
    ELSE IF Cardinality(f.alphabet) = 0 THEN ErrNoAlphabet
    ELSE IF f.initialState = "" THEN ErrNoInitialState
    ELSE IF Cardinality(f.finalStates) = 0 THEN ErrNoFinalState
    ELSE IF f.initialState \notin f.states THEN ErrInitialNotInStates
    ELSE Nil

\* BuildErrors without the totality scan
BuildErrors_NoScan(f) ==
    IF BuildPrecheck(f) # Nil THEN {BuildPrecheck(f)} ELSE {Nil}

\* the errors Build can return: the nested range loops visit the maps in an
\* unspecified order, so any missing pair can be the one reported
BuildErrors(f) ==
    IF BuildPrecheck(f) # Nil THEN {BuildPrecheck(f)}
    ELSE IF MissingPairs(f) # {}
         THEN {ErrNotDefined(k[1], k[2]) : k \in MissingPairs(f)}
         ELSE {Nil}

\* BuildF handing the transitions over, leaving the Builder without them
BuildF_HandOver(f) ==
    [f EXCEPT !.currentState = f.initialState, !.transitions = EmptyMap]

\* the object after a Build that returns no error
BuildF(f) == [f EXCEPT !.currentState = f.initialState]

(***************************************************************************)
(* Automaton operations, as functions of the FSM object.                   *)
(***************************************************************************)
\* ResetF leaving the cursor where it is
ResetF_Stay(f) == f

ResetF(f) == [f EXCEPT !.currentState = f.initialState]

CurrentState(f) == f.currentState

\* stepF looking the transition up before checking the alphabet
stepF_LookupFirst(f, symbol) ==
    IF TransitionKey(f.currentState, symbol) \notin DOMAIN f.transitions
    THEN [fsm |-> f, err |-> ErrNoTransition(f.currentState, symbol)]
    ELSE IF symbol \notin f.alphabet
         THEN [fsm |-> f, err |-> ErrSymbolNotInAlphabet(symbol)]
         ELSE [fsm |-> [f EXCEPT !.currentState =
                            f.transitions[TransitionKey(f.currentState, symbol)]],
               err |-> Nil]

stepF(f, symbol) ==
    IF symbol \notin f.alphabet
    THEN [fsm |-> f, err |-> ErrSymbolNotInAlphabet(symbol)]
    ELSE IF TransitionKey(f.currentState, symbol) \notin DOMAIN f.transitions
         THEN [fsm |-> f, err |-> ErrNoTransition(f.currentState, symbol)]
         ELSE [fsm |-> [f EXCEPT !.currentState =
                            f.transitions[TransitionKey(f.currentState, symbol)]],
               err |-> Nil]

\* ProcessStringF going on with the next symbol after a step that failed
RECURSIVE ProcessStringF_SkipFailed(_, _)
ProcessStringF_SkipFailed(f, input) ==
    IF input = <<>> THEN [fsm |-> f, err |-> Nil]
    ELSE LET r == stepF(f, SymbolOfRune(Head(input)))
             rest == ProcessStringF_SkipFailed(r.fsm, Tail(input))
         IN  IF r.err # Nil THEN [fsm |-> rest.fsm, err |-> r.err] ELSE rest

RECURSIVE ProcessStringF(_, _)
ProcessStringF(f, input) ==
    IF input = <<>> THEN [fsm |-> f, err |-> Nil]
    ELSE LET r == stepF(f, SymbolOfRune(Head(input)))
         IN  IF r.err # Nil THEN r ELSE ProcessStringF(r.fsm, Tail(input))

IsFinalState(f) == f.currentState \in f.finalStates

\* the slices GetStates can return: the range loop visits the map in an
\* unspecified order
GetStatesF(f) == Perms(f.states)

GetAlphabetF(f) == Perms(f.alphabet)

\* GetFinalStatesF listing every state, final or not
GetFinalStatesF_AllStates(f) == Perms(f.states)

GetFinalStatesF(f) == Perms(f.finalStates)

\* ProcessInputF without the Reset
ProcessInputF_NoReset(f, input) ==
    LET r == ProcessStringF(f, input)
    IN  IF r.err # Nil
        THEN [fsm |-> r.fsm, ok |-> FALSE, err |-> r.err]
        ELSE [fsm |-> r.fsm, ok |-> IsFinalState(r.fsm), err |-> Nil]

ProcessInputF(f, input) ==
    LET r == ProcessStringF(ResetF(f), input)
    IN  IF r.err # Nil
        THEN [fsm |-> r.fsm, ok |-> FALSE, err |-> r.err]
        ELSE [fsm |-> r.fsm, ok |-> IsFinalState(r.fsm), err |-> Nil]

(***************************************************************************)
(* State.                                                                  *)
(*   heap     : the FSM objects allocated, by address                      *)
(*   builder  : the Builder; builder.fsm is the address it points to       *)
(*   automata : the pointers successful Build calls returned, in order     *)
(*   last     : the last call: its name and what it returned (the error,   *)
(*              the boolean, and the *FSM, NilPtr when none; the slice,    *)
(*              for the calls that return one)                             *)
(***************************************************************************)
VARIABLES heap, builder, automata, last

vars == <<heap, builder, automata, last>>

\* the object the Builder points to
bfsm == heap[builder.fsm]

\* the nil *FSM; addresses of objects start at 1
NilPtr == 0

Ret(op, err, ok) == [op |-> op, err |-> err, ok |-> ok, fsm |-> NilPtr]

\* NewBuilder()
Init ==
    /\ heap = <<NewFSM>>
    /\ builder = [fsm |-> 1]
    /\ automata = <<>>
    /\ last = Ret("NewBuilder", Nil, FALSE)

\* the heap with the object at address p replaced
Store(p, f) == [heap EXCEPT ![p] = f]

AddStates(sts) ==
    /\ heap' = Store(builder.fsm, AddStatesF(bfsm, sts))
    /\ last' = Ret("AddStates", Nil, FALSE)
    /\ UNCHANGED <<builder, automata>>

AddSymbols(syms) ==
    /\ heap' = Store(builder.fsm, AddSymbolsF(bfsm, syms))
    /\ last' = Ret("AddSymbols", Nil, FALSE)
    /\ UNCHANGED <<builder, automata>>

SetInitialState(q) ==
    LET r == SetInitialStateF(bfsm, q)
    IN  /\ heap' = Store(builder.fsm, r.fsm)
        /\ last' = Ret("SetInitialState", r.err, FALSE)
        /\ UNCHANGED <<builder, automata>>

AddFinalStates(sts) ==
    LET r == AddFinalStatesF(bfsm, sts)
    IN  /\ heap' = Store(builder.fsm, r.fsm)
        /\ last' = Ret("AddFinalStates", r.err, FALSE)
        /\ UNCHANGED <<builder, automata>>

AddTransition(s, a, n) ==
    LET r == AddTransitionF(bfsm, s, a, n)
    IN  /\ heap' = Store(builder.fsm, r.fsm)
        /\ last' = Ret("AddTransition", r.err, FALSE)
        /\ UNCHANGED <<builder, automata>>

(***************************************************************************)
(* The argument of AddTransitions is a list of maps from TransitionKey to  *)
(* State.  A map is modelled as a non-empty set of entries                 *)
(* <<state, symbol, nextState>> with distinct keys; the inner range loop   *)
(* visits a map's entries in an unspecified order.                         *)
(***************************************************************************)
Entries == StateLabels \X SymbolLabels \X StateLabels

IsMap(g) == \A e1, e2 \in g : (e1[1] = e2[1] /\ e1[2] = e2[2]) => e1 = e2

TransitionMaps ==
    {g \in SUBSET Entries : g # {} /\ Cardinality(g) <= MaxBatch /\ IsMap(g)}

RECURSIVE BatchSize(_)
BatchSize(batch) ==
    IF batch = <<>> THEN 0 ELSE Cardinality(Head(batch)) + BatchSize(Tail(batch))

Batches == {b \in SeqsUpTo(TransitionMaps, MaxBatch) : BatchSize(b) <= MaxBatch}

\* the orders in which the two nested loops can visit the entries of a batch
RECURSIVE VisitOrders(_)
VisitOrders(batch) ==
    IF batch = <<>> THEN {<<>>}
    ELSE {p \o rest : p \in Perms(Head(batch)), rest \in VisitOrders(Tail(batch))}

\* what AddTransitions can leave and return for a batch: one outcome for each
\* order its loops can visit the batch in
AddTransitionsOutcomes(f, batch) ==
    {AddTransitionsF(f, order) : order \in VisitOrders(batch)}

\* every visit order of every batch
BatchOrders == UNION {VisitOrders(batch) : batch \in Batches}

AddTransitions ==
    \E r \in {AddTransitionsF(bfsm, order) : order \in BatchOrders} :
        /\ heap' = Store(builder.fsm, r.fsm)
        /\ last' = Ret("AddTransitions", r.err, FALSE)
        /\ UNCHANGED <<builder, automata>>

\* Build(): on success the caller keeps the pointer returned (while it has
\* room for one more)
Build ==
    \E err \in BuildErrors(bfsm) :
        /\ last' = [Ret("Build", err, FALSE) EXCEPT
                        !.fsm = IF err # Nil THEN NilPtr ELSE builder.fsm]
        /\ UNCHANGED builder
        /\ IF err # Nil
           THEN UNCHANGED <<heap, automata>>
           ELSE /\ heap' = Store(builder.fsm, BuildF(bfsm))
                /\ automata' = IF Len(automata) < MaxBuilds
                               THEN Append(automata, builder.fsm)
                               ELSE automata

(***************************************************************************)
(* Automaton operations; the receiver f is a pointer to an FSM object.     *)
(***************************************************************************)
Reset(f) ==
    /\ heap' = Store(f, ResetF(heap[f]))
    /\ last' = Ret("Reset", Nil, FALSE)
    /\ UNCHANGED <<builder, automata>>

step(f, symbol) ==
    LET r == stepF(heap[f], symbol)
    IN  /\ heap' = Store(f, r.fsm)
        /\ last' = Ret("step", r.err, FALSE)
        /\ UNCHANGED <<builder, automata>>

ProcessString(f, input) ==
    LET r == ProcessStringF(heap[f], input)
    IN  /\ heap' = Store(f, r.fsm)
        /\ last' = Ret("ProcessString", r.err, FALSE)
        /\ UNCHANGED <<builder, automata>>

ProcessInput(f, input) ==
    LET r == ProcessInputF(heap[f], input)
    IN  /\ heap' = Store(f, r.fsm)
        /\ last' = Ret("ProcessInput", r.err, r.ok)
        /\ UNCHANGED <<builder, automata>>

\* what a call that returns a slice returns
RetList(op, list) ==
    [op |-> op, err |-> Nil, ok |-> FALSE, fsm |-> NilPtr, list |-> list]

GetStates(f) ==
    \E list \in GetStatesF(heap[f]) :
        /\ last' = RetList("GetStates", list)
        /\ UNCHANGED <<heap, builder, automata>>

GetAlphabet(f) ==
    \E list \in GetAlphabetF(heap[f]) :
        /\ last' = RetList("GetAlphabet", list)
        /\ UNCHANGED <<heap, builder, automata>>

GetFinalStates(f) ==
    \E list \in GetFinalStatesF(heap[f]) :
        /\ last' = RetList("GetFinalStates", list)
        /\ UNCHANGED <<heap, builder, automata>>

\* the symbols step is called with: those a rune converts to
StepSymbols == {SymbolOfRune(r) : r \in Runes}

BuilderOp ==
    \/ \E sts \in StateArgs : AddStates(sts)
    \/ \E syms \in SymbolArgs : AddSymbols(syms)
    \/ \E q \in StateLabels : SetInitialState(q)
    \/ \E sts \in StateArgs : AddFinalStates(sts)
    \/ \E s \in StateLabels, a \in SymbolLabels, n \in StateLabels :
           AddTransition(s, a, n)
    \/ AddTransitions
    \/ Build

AutomatonOp(f) ==
    \/ Reset(f)
    \/ \E symbol \in StepSymbols : step(f, symbol)
    \/ \E input \in Inputs : ProcessString(f, input)
    \/ \E input \in Inputs : ProcessInput(f, input)
    \/ GetStates(f)
    \/ GetAlphabet(f)
    \/ GetFinalStates(f)

Next ==
    \/ BuilderOp
    \/ \E f \in Range(automata) : AutomatonOp(f)

Spec == Init /\ [][Next]_vars

\* AddTransitions(batch): the call with its argument
AddTransitionsOf(batch) ==
    \E r \in AddTransitionsOutcomes(bfsm, batch) :
        /\ heap' = Store(builder.fsm, r.fsm)
        /\ last' = Ret("AddTransitions", r.err, FALSE)
        /\ UNCHANGED <<builder, automata>>

(***************************************************************************)
(* The Builder under the operations AddTransitions reads the result of     *)
(* (AddStates, AddSymbols) and AddTransitions itself, called with its      *)
(* argument.                                                               *)
(***************************************************************************)
BatchNext ==
    \/ \E sts \in StateArgs : AddStates(sts)
    \/ \E syms \in SymbolArgs : AddSymbols(syms)
    \/ \E batch \in Batches : AddTransitionsOf(batch)

BatchSpec == Init /\ [][BatchNext]_vars

(***************************************************************************)
(* The modulo-three automaton of src/main.go: the calls main makes, with   *)
(* the arguments main gives them, made in any order and any number of      *)
(* times, and ProcessInput on binary strings.                              *)
(***************************************************************************)
Mod3States == <<"S0", "S1", "S2">>

Mod3Symbols == <<"0", "1">>

\* Mod3Transitions with the targets of d(S1, 0) and d(S2, 0) exchanged
Mod3Transitions_Exchanged ==
    <<{<<"S0", "0", "S0">>},
      {<<"S0", "1", "S1">>},
      {<<"S1", "0", "S1">>},
      {<<"S1", "1", "S0">>},
      {<<"S2", "0", "S2">>},
      {<<"S2", "1", "S2">>}>>

\* the list of one-entry maps handed to AddTransitions
Mod3Transitions ==
    <<{<<"S0", "0", "S0">>},
      {<<"S0", "1", "S1">>},
      {<<"S1", "0", "S2">>},
      {<<"S1", "1", "S0">>},
      {<<"S2", "0", "S1">>},
      {<<"S2", "1", "S2">>}>>

Mod3Inputs == SeqsUpTo(BinaryRunes, Mod3MaxLen)

Mod3Next ==
    \/ AddStates(Mod3States)
    \/ AddSymbols(Mod3Symbols)
    \/ SetInitialState("S0")
    \/ AddFinalStates(Mod3States)
    \/ AddTransitionsOf(Mod3Transitions)
    \/ Build
    \/ \E f \in Range(automata) : \E input \in Mod3Inputs : ProcessInput(f, input)
    \/ \E f \in Range(automata) : Reset(f)

Mod3Spec == Init /\ [][Mod3Next]_vars

(***************************************************************************)
(* Vocabulary of the properties.                                           *)
(***************************************************************************)
BuilderOps ==
    {"AddStates", "AddSymbols", "SetInitialState", "AddFinalStates",
     "AddTransition", "AddTransitions", "Build"}

CursorOps == {"Reset", "step", "ProcessString", "ProcessInput"}

\* the five structural fields of an FSM object
Structure(f) ==
    <<f.states, f.alphabet, f.initialState, f.finalStates, f.transitions>>

\* the data-model invariants of a built automaton
ValidAutomaton(f) ==
    /\ f.states # {}
    /\ f.alphabet # {}
    /\ f.initialState \in f.states
    /\ f.finalStates # {}
    /\ f.finalStates \subseteq f.states
    /\ \A s \in f.states, a \in f.alphabet :
           /\ <<s, a>> \in DOMAIN f.transitions
           /\ f.transitions[<<s, a>>] \in f.states

(***************************************************************************)
(* C1.  Whenever Build returns success, the automaton it returns has       *)
(* non-empty states and alphabet, its initial state is a state, its final  *)
(* states are a non-empty subset of the states, every (state, symbol) pair *)
(* has a transition whose target is a state, and its cursor is at the      *)
(* initial state; whatever Builder operations came before.                 *)
(***************************************************************************)
\* C1: a Build that has just returned success returned a valid automaton with
\* its cursor at the initial state
C1_BuildYieldsValidAutomaton ==
    (last.op = "Build" /\ last.err = Nil) =>
        /\ last.fsm \in DOMAIN heap
        /\ ValidAutomaton(heap[last.fsm])
        /\ heap[last.fsm].currentState = heap[last.fsm].initialState

\* a Build has just succeeded on a two-state, two-symbol automaton
C1_Witness ==
    /\ last.op = "Build"
    /\ last.err = Nil
    /\ Cardinality(bfsm.states) = 2
    /\ Cardinality(bfsm.alphabet) = 2

(***************************************************************************)
(* C2.  After a successful Build the returned automaton's states,          *)
(* alphabet, initial state, final states and transitions never change      *)
(* again, whatever is called afterwards, further Builder calls included;   *)
(* only the cursor changes, and only Reset and step (directly or through   *)
(* ProcessString / ProcessInput) change it.                                *)
(***************************************************************************)
\* C2: no step changes a structural field of a held automaton, and only the
\* cursor operations move its cursor
C2_FrozenAfterBuild ==
    [][\A i \in DOMAIN automata :
          /\ Structure(heap'[automata[i]]) = Structure(heap[automata[i]])
          /\ heap'[automata[i]].currentState # heap[automata[i]].currentState
                 => last'.op \in CursorOps]_vars

(***************************************************************************)
(* C3.  Totality lasts as long as the automaton: in every state reachable  *)
(* after a successful Build, step from any state of the automaton on any   *)
(* symbol of its alphabet succeeds and yields one of its states, and so    *)
(* no step on a built automaton returns "no transition defined for ...".   *)
(***************************************************************************)
\* C3: every held automaton is total in every state, and no cursor operation
\* has returned "no transition defined"
C3_TotalForLife ==
    /\ \A p \in Range(automata) :
           \A s \in heap[p].states, a \in heap[p].alphabet :
               LET r == stepF([heap[p] EXCEPT !.currentState = s], a)
               IN  r.err = Nil /\ r.fsm.currentState \in heap[p].states
    /\ (last.op \in CursorOps /\ last.err # Nil) =>
           last.err[1] # "no transition defined for d(%s, %s)"

(***************************************************************************)
(* C4.  Two automata obtained from two successful Build calls on the same  *)
(* Builder do not interact: an operation on one never changes the          *)
(* CurrentState() or IsFinalState() seen on the other, and a later Build   *)
(* does not move the cursor of an automaton returned earlier.              *)
(***************************************************************************)
\* C4: an operation on one held automaton leaves what the others show
\* unchanged, and so does a Build
C4_IndependentCursors ==
    [][/\ \A i, j \in DOMAIN automata :
            (i # j /\ last'.op \in CursorOps /\ AutomatonOp(automata[i])) =>
                /\ CurrentState(heap'[automata[j]]) = CurrentState(heap[automata[j]])
                /\ IsFinalState(heap'[automata[j]]) = IsFinalState(heap[automata[j]])
       /\ last'.op = "Build" =>
            \A i \in DOMAIN automata :
                CurrentState(heap'[automata[i]]) = CurrentState(heap[automata[i]])]_vars

(***************************************************************************)
(* C5.  Build validates in a fixed order and reports the first violated    *)
(* check only: empty states, empty alphabet, empty initial-state label,    *)
(* empty final states, initial state not a state, and then a (state,       *)
(* symbol) pair without a transition, the pair named being one that has    *)
(* none; it succeeds exactly when none of the six is violated.             *)
(***************************************************************************)
NoStates(f) == f.states = {}
NoAlphabet(f) == f.alphabet = {}
NoInitialState(f) == f.initialState = ""
NoFinalStates(f) == f.finalStates = {}
InitialNotAState(f) == f.initialState \notin f.states
NotTotal(f) ==
    \E s \in f.states, a \in f.alphabet : <<s, a>> \notin DOMAIN f.transitions

\* err is what the claim lets Build return on the object f
FirstViolation(f, err) ==
    /\ NoStates(f) => err = ErrNoStates
    /\ (~NoStates(f) /\ NoAlphabet(f)) => err = ErrNoAlphabet
    /\ (~NoStates(f) /\ ~NoAlphabet(f) /\ NoInitialState(f)) =>
           err = ErrNoInitialState
    /\ (~NoStates(f) /\ ~NoAlphabet(f) /\ ~NoInitialState(f)
          /\ NoFinalStates(f)) => err = ErrNoFinalState
    /\ (~NoStates(f) /\ ~NoAlphabet(f) /\ ~NoInitialState(f)
          /\ ~NoFinalStates(f) /\ InitialNotAState(f)) =>
           err = ErrInitialNotInStates
    /\ (~NoStates(f) /\ ~NoAlphabet(f) /\ ~NoInitialState(f)
          /\ ~NoFinalStates(f) /\ ~InitialNotAState(f) /\ NotTotal(f)) =>
           \E s \in f.states, a \in f.alphabet :
               /\ <<s, a>> \notin DOMAIN f.transitions
               /\ err = ErrNotDefined(s, a)
    /\ err = Nil <=>
           ~(NoStates(f) \/ NoAlphabet(f) \/ NoInitialState(f)
              \/ NoFinalStates(f) \/ InitialNotAState(f) \/ NotTotal(f))

\* C5: the error of the Build that has just returned is the first violation of the
\* Builder's object (Build writes no field the checks read); and, so that the
\* fifth check is exercised too, the same holds of what Build would return
\* were the initialState field of that object written directly ("q1" is a
\* label that is never a state).
C5_BuildReportsFirstViolation ==
    /\ last.op = "Build" => FirstViolation(bfsm, last.err)
    /\ \A q \in StateLabels \cup {"q1"} :
           LET g == [bfsm EXCEPT !.initialState = q]
           IN  /\ BuildErrors(g) # {}
               /\ \A err \in BuildErrors(g) : FirstViolation(g, err)

\* a Build has just failed on the sixth check alone, naming the one missing pair
C5_Witness ==
    /\ last.op = "Build"
    /\ last.err = ErrNotDefined("q0", "b")
    /\ MissingPairs(bfsm) = {<<"q0", "b">>}
    /\ Cardinality(bfsm.states) = 2

(***************************************************************************)
(* C6.  AddTransition(state, symbol, nextState) fails on the first of:     *)
(* state not a state (naming state), nextState not a state (naming         *)
(* nextState), symbol not in the alphabet, the pair already mapped.  A     *)
(* failure leaves the Builder unchanged; a success adds exactly the        *)
(* mapping (state, symbol) -> nextState and changes nothing else.          *)
(***************************************************************************)
\* f2 and err are what the claim lets AddTransition(s, a, n) make of f
AddTransitionOutcome(f, s, a, n, f2, err) ==
    /\ s \notin f.states => err = ErrStateNotInSet(s)
    /\ (s \in f.states /\ n \notin f.states) => err = ErrNextStateNotInSet(n)
    /\ (s \in f.states /\ n \in f.states /\ a \notin f.alphabet) =>
           err = ErrSymbolNotInAlphabet(a)
    /\ (s \in f.states /\ n \in f.states /\ a \in f.alphabet
          /\ <<s, a>> \in DOMAIN f.transitions) => err = ErrAlreadyDefined(s, a)
    /\ (s \in f.states /\ n \in f.states /\ a \in f.alphabet
          /\ <<s, a>> \notin DOMAIN f.transitions) => err = Nil
    /\ err # Nil => f2 = f
    /\ err = Nil =>
           /\ DOMAIN f2.transitions = DOMAIN f.transitions \cup {<<s, a>>}
           /\ f2.transitions[<<s, a>>] = n
           /\ \A k \in DOMAIN f.transitions \ {<<s, a>>} :
                  f2.transitions[k] = f.transitions[k]
           /\ f2.states = f.states
           /\ f2.alphabet = f.alphabet
           /\ f2.initialState = f.initialState
           /\ f2.finalStates = f.finalStates
           /\ f2.currentState = f.currentState

\* C6: every AddTransition call ends as the claim says, in every state it is
\* made in
C6_AddTransitionChecksInOrder ==
    [][last'.op = "AddTransition" =>
          \A s \in StateLabels, a \in SymbolLabels, n \in StateLabels :
              AddTransition(s, a, n) =>
                  /\ AddTransitionOutcome(bfsm, s, a, n, bfsm', last'.err)
                  /\ builder' = builder
                  /\ automata' = automata]_vars

\* an AddTransition has just failed on the last of the four checks
C6_Witness ==
    /\ last.op = "AddTransition"
    /\ last.err = ErrAlreadyDefined("q0", "b")
    /\ <<"q0", "b">> \in DOMAIN bfsm.transitions

(***************************************************************************)
(* C7.  A registered transition is never overwritten: the mapping of a     *)
(* registered pair stays what it is through every later operation, and     *)
(* every later attempt to add a mapping for that pair fails with           *)
(* "already defined", whatever target it names.                            *)
(***************************************************************************)
\* no call changes or removes a registered mapping
MappingsKept ==
    \A k \in DOMAIN bfsm.transitions :
        /\ k \in DOMAIN bfsm'.transitions
        /\ bfsm'.transitions[k] = bfsm.transitions[k]

\* C7 as it stands: mappings are kept, and an AddTransition for a registered
\* pair returns "already defined"
C7_DuplicateAlwaysReported ==
    [][/\ MappingsKept
       /\ last'.op = "AddTransition" =>
            \A s \in StateLabels, a \in SymbolLabels, n \in StateLabels :
                (AddTransition(s, a, n) /\ <<s, a>> \in DOMAIN bfsm.transitions)
                    => last'.err = ErrAlreadyDefined(s, a)]_vars

\* C7 as amended: mappings are kept, and the attempt fails, with "already defined" when the
\* target is a state and with "next state not in state set" when it is not.
C7_RegisteredTransitionKept ==
    [][/\ MappingsKept
       /\ last'.op = "AddTransition" =>
            \A s \in StateLabels, a \in SymbolLabels, n \in StateLabels :
                (AddTransition(s, a, n) /\ <<s, a>> \in DOMAIN bfsm.transitions)
                    => last'.err = IF n \in bfsm.states
                                   THEN ErrAlreadyDefined(s, a)
                                   ELSE ErrNextStateNotInSet(n)]_vars

\* a second mapping for a registered pair has just been refused, and the first
\* one stands
C7_Witness ==
    /\ last.op = "AddTransition"
    /\ last.err = ErrAlreadyDefined("q0", "a")
    /\ <<"q0", "a">> \in DOMAIN bfsm.transitions
    /\ bfsm.transitions[<<"q0", "a">>] = ""

(***************************************************************************)
(* The run of an FSM object over an input, told position by position.      *)
(***************************************************************************)
\* the symbol at position k of the input w
SymbolAt(w, k) == SymbolOfRune(w[k])

\* the state reached from c by the first k symbols of w, each step of which
\* has a transition
RECURSIVE RunTo(_, _, _, _)
RunTo(f, c, w, k) ==
    IF k = 0 THEN c
    ELSE f.transitions[<<RunTo(f, c, w, k - 1), SymbolAt(w, k)>>]

\* the step at position k has no symbol of the alphabet, or no transition
StepFails(f, c, w, k) ==
    \/ SymbolAt(w, k) \notin f.alphabet
    \/ <<RunTo(f, c, w, k - 1), SymbolAt(w, k)>> \notin DOMAIN f.transitions

\* the first position of w whose step fails, 0 when none does
FirstFail(f, c, w) ==
    LET fails == {k \in 1..Len(w) :
                     /\ \A j \in 1..(k - 1) : ~StepFails(f, c, w, j)
                     /\ StepFails(f, c, w, k)}
    IN  IF fails = {} THEN 0 ELSE CHOOSE k \in fails : TRUE

(***************************************************************************)
(* C8.  ProcessInput(w) on a built automaton: when every symbol of w is in *)
(* the alphabet it returns no error and the verdict "the state reached     *)
(* from the initial state over w is final", leaving the cursor there; when *)
(* some symbol is not, it returns false and "not in alphabet" naming the   *)
(* first such symbol, leaving the cursor where the symbols before it led.  *)
(***************************************************************************)
\* the positions of w whose symbol is not in the alphabet
Foreign(f, w) == {k \in 1..Len(w) : SymbolAt(w, k) \notin f.alphabet}

\* C8: every ProcessInput call on a held automaton ends as the claim says
C8_ProcessInputVerdict ==
    [][last'.op = "ProcessInput" =>
          \A p \in Range(automata), w \in Inputs :
              ProcessInput(p, w) =>
                  IF Foreign(heap[p], w) = {}
                  THEN /\ last'.err = Nil
                       /\ heap'[p].currentState =
                              RunTo(heap[p], heap[p].initialState, w, Len(w))
                       /\ last'.ok = (heap'[p].currentState \in heap[p].finalStates)
                  ELSE LET k == CHOOSE i \in Foreign(heap[p], w) :
                                    \A j \in Foreign(heap[p], w) : i <= j
                       IN  /\ last'.err = ErrSymbolNotInAlphabet(SymbolAt(w, k))
                           /\ last'.ok = FALSE
                           /\ heap'[p].currentState =
                                  RunTo(heap[p], heap[p].initialState, w, k - 1)]_vars

(***************************************************************************)
(* C9.  ProcessInput does not depend on where the cursor was: from any two *)
(* cursor positions ProcessInput(w) returns the same verdict and the same  *)
(* error and leaves the same object, and calling it twice in a row gives   *)
(* the same results twice.                                                 *)
(***************************************************************************)
\* C9: in every state, for every held automaton, input and other cursor
\* position, ProcessInput gives the same results, also when called again
C9_ProcessInputIgnoresCursor ==
    \A p \in Range(automata), w \in Inputs, c \in StateLabels :
        LET here == ProcessInputF(heap[p], w)
            there == ProcessInputF([heap[p] EXCEPT !.currentState = c], w)
        IN  /\ here = there
            /\ ProcessInputF(here.fsm, w) = here

\* a ProcessInput has just accepted, ending away from the initial state
C9_Witness ==
    /\ last.op = "ProcessInput"
    /\ last.err = Nil
    /\ last.ok
    /\ \E p \in Range(automata) :
           heap[p].currentState # heap[p].initialState

(***************************************************************************)
(* C10.  ProcessString(w) steps through w from the current cursor without  *)
(* resetting, stops at the first symbol whose step fails and returns that  *)
(* step's error, leaving the cursor where the symbols before it led; on    *)
(* success the cursor is where all of w led, and then ProcessString(u)     *)
(* followed by ProcessString(v) is ProcessString(u v).                     *)
(***************************************************************************)
\* r is what the claim lets ProcessString(w) make of f
ProcessStringOutcome(f, w, r) ==
    LET k == FirstFail(f, f.currentState, w)
    IN  /\ Structure(r.fsm) = Structure(f)
        /\ k = 0 =>
               /\ r.err = Nil
               /\ r.fsm.currentState = RunTo(f, f.currentState, w, Len(w))
        /\ k > 0 =>
               /\ r.fsm.currentState = RunTo(f, f.currentState, w, k - 1)
               /\ r.err # Nil
               /\ r.err = stepF(r.fsm, SymbolAt(w, k)).err

\* C10: in every state, for every held automaton at its current cursor, every
\* input w and every split of w into u and v, ProcessString ends as the claim
\* says
C10_ProcessStringStopsAtFirstFailure ==
    \A p \in Range(automata), w \in Inputs :
        /\ ProcessStringOutcome(heap[p], w, ProcessStringF(heap[p], w))
        /\ \A k \in 0..Len(w) :
               LET u == SubSeq(w, 1, k)
                   v == SubSeq(w, k + 1, Len(w))
                   ru == ProcessStringF(heap[p], u)
               IN  ru.err = Nil =>
                       ProcessStringF(ru.fsm, v) = ProcessStringF(heap[p], w)

\* a ProcessString has just stopped at a symbol that is not in the alphabet,
\* leaving the cursor away from the initial state
C10_Witness ==
    /\ last.op = "ProcessString"
    /\ last.err = ErrSymbolNotInAlphabet("c")
    /\ \E p \in Range(automata) :
           heap[p].currentState # heap[p].initialState

(***************************************************************************)
(* C11.  The modulo-three automaton (states S0, S1, S2; alphabet 0, 1;     *)
(* initial state S0; every state final; d(Si, b) = S((2i + b) mod 3)):     *)
(* building it succeeds, and for every binary string w ProcessInput(w)     *)
(* succeeds with verdict true and leaves the cursor at Sk, where k is the  *)
(* value of w as an unsigned binary integer, modulo 3.                     *)
(***************************************************************************)
\* the label of the state numbered k
Mod3State(k) == Mod3States[k + 1]

\* the value of a string of the runes '0' and '1' as an unsigned binary integer
RECURSIVE BinaryValue(_)
BinaryValue(w) ==
    IF w = <<>> THEN 0
    ELSE 2 * BinaryValue(SubSeq(w, 1, Len(w) - 1)) + (w[Len(w)] - 48)

\* the structure the claim gives the automaton
Mod3Structure ==
    <<{"S0", "S1", "S2"}, {"0", "1"}, "S0", {"S0", "S1", "S2"},
      [k \in {"S0", "S1", "S2"} \X {"0", "1"} |->
          CASE k = <<"S0", "0">> -> "S0"
            [] k = <<"S0", "1">> -> "S1"
            [] k = <<"S1", "0">> -> "S2"
            [] k = <<"S1", "1">> -> "S0"
            [] k = <<"S2", "0">> -> "S1"
            [] k = <<"S2", "1">> -> "S2"]>>

\* C11: once the Builder holds the modulo-three automaton Build can only
\* succeed; every automaton Build returned is that automaton, and on it
\* ProcessInput of every binary string w returns true and no error and leaves
\* the cursor at the state numbered (value of w) mod 3
C11_ModThree ==
    /\ Structure(bfsm) = Mod3Structure => BuildErrors(bfsm) = {Nil}
    /\ (last.op = "Build" /\ Structure(bfsm) = Mod3Structure) => last.err = Nil
    /\ last.op = "ProcessInput" => (last.err = Nil /\ last.ok)
    /\ \A p \in Range(automata) :
           /\ Structure(heap[p]) = Mod3Structure
           /\ \A w \in Mod3Inputs :
                  LET r == ProcessInputF(heap[p], w)
                  IN  /\ r.err = Nil
                      /\ r.ok
                      /\ CurrentState(r.fsm) = Mod3State(BinaryValue(w) % 3)

\* a ProcessInput on the built modulo-three automaton has just returned true,
\* leaving the cursor at S2 (as 1011 does)
C11_Witness ==
    /\ last.op = "ProcessInput"
    /\ last.ok
    /\ \E p \in Range(automata) :
           /\ Structure(heap[p]) = Mod3Structure
           /\ CurrentState(heap[p]) = "S2"
           /\ CurrentState(ProcessInputF(heap[p], <<49, 48, 49, 49>>).fsm) = "S2"
           /\ CurrentState(ProcessInputF(heap[p], <<49, 49, 48, 49>>).fsm) = "S1"
           /\ CurrentState(ProcessInputF(heap[p], <<49, 49, 48>>).fsm) = "S0"

(***************************************************************************)
(* C12.  SetInitialState(q) is validated against the state set of the      *)
(* moment of the call: when q is not a state it fails with "state q not in *)
(* state set" and leaves the Builder unchanged, the initial state recorded *)
(* before included; when q is a state it records q in place of whatever    *)
(* was recorded before, and changes nothing else.                          *)
(***************************************************************************)
\* r is what the claim lets SetInitialState(q) make of f
SetInitialStateOutcome(f, q, r) ==
    IF q \notin f.states
    THEN /\ r.err = ErrStateNotInSet(q)
         /\ r.fsm = f
    ELSE /\ r.err = Nil
         /\ r.fsm.initialState = q
         /\ r.fsm.states = f.states
         /\ r.fsm.alphabet = f.alphabet
         /\ r.fsm.finalStates = f.finalStates
         /\ r.fsm.transitions = f.transitions
         /\ r.fsm.currentState = f.currentState

\* C12: in every state, SetInitialState with any label ("q1" is a label that
\* is never a state) ends as the claim says; and the call that has just
\* returned left a state recorded when it succeeded, and named a label that
\* is not a state when it failed
C12_SetInitialStateValidated ==
    /\ \A q \in StateLabels \cup {"q1"} :
           SetInitialStateOutcome(bfsm, q, SetInitialStateF(bfsm, q))
    /\ last.op = "SetInitialState" =>
           IF last.err = Nil
           THEN bfsm.initialState \in bfsm.states
           ELSE \E q \in StateLabels \ bfsm.states : last.err = ErrStateNotInSet(q)

\* a SetInitialState has just failed, and the initial state recorded by an
\* earlier call stands
C12_Witness ==
    /\ last.op = "SetInitialState"
    /\ last.err = ErrStateNotInSet("")
    /\ bfsm.initialState = "q0"

(***************************************************************************)
(* C13.  AddFinalStates(l1 .. ln) takes the labels in argument order and   *)
(* stops at the first that is not a state, failing with "state l not in    *)
(* state set" for that label: the labels before it have been added and     *)
(* stay, the labels after it are not added.  When every label is a state   *)
(* all are added and there is no error.                                    *)
(***************************************************************************)
\* r is what the claim lets AddFinalStates(sts) make of f
AddFinalStatesOutcome(f, sts, r) ==
    LET bad == {k \in DOMAIN sts : sts[k] \notin f.states}
        stop == IF bad = {} THEN Len(sts) + 1
                ELSE CHOOSE k \in bad : \A j \in bad : k <= j
    IN  /\ r.err = IF bad = {} THEN Nil ELSE ErrStateNotInSet(sts[stop])
        /\ r.fsm.finalStates = f.finalStates \cup {sts[j] : j \in 1..(stop - 1)}
        /\ r.fsm.states = f.states
        /\ r.fsm.alphabet = f.alphabet
        /\ r.fsm.initialState = f.initialState
        /\ r.fsm.transitions = f.transitions
        /\ r.fsm.currentState = f.currentState

\* C13: in every state, AddFinalStates with any list of labels ("q1" is a
\* label that is never a state) ends as the claim says; and the call that has
\* just failed named a label that is not a state
C13_AddFinalStatesStopsAtFirstUnknown ==
    /\ \A sts \in SeqsUpTo(StateLabels \cup {"q1"}, MaxArgs) :
           AddFinalStatesOutcome(bfsm, sts, AddFinalStatesF(bfsm, sts))
    /\ (last.op = "AddFinalStates" /\ last.err # Nil) =>
           \E q \in StateLabels \ bfsm.states : last.err = ErrStateNotInSet(q)

\* an AddFinalStates has just failed on a label that is not a state, and a
\* label that is a state is final
C13_Witness ==
    /\ last.op = "AddFinalStates"
    /\ last.err = ErrStateNotInSet("")
    /\ bfsm.finalStates = {"q0"}
    /\ AddFinalStatesF([bfsm EXCEPT !.finalStates = {}], <<"q0", "">>).fsm.finalStates
           = {"q0"}

(***************************************************************************)
(* C14.  AddTransitions(batch) applies the groups in list order, handing   *)
(* each entry to AddTransition; it stops at the first entry that fails and *)
(* returns that entry's error.  The transitions registered earlier in the  *)
(* batch stay registered and no entry of a later group is applied.  When   *)
(* no entry fails the map afterwards is the old map plus every entry of    *)
(* the batch.                                                              *)
(***************************************************************************)
\* the entries of the groups of the batch numbered in G
EntriesOf(batch, G) == UNION {batch[g] : g \in G \cap DOMAIN batch}

\* the entry e is registered in f
Registered(f, e) ==
    /\ <<e[1], e[2]>> \in DOMAIN f.transitions
    /\ f.transitions[<<e[1], e[2]>>] = e[3]

\* r is what the claim lets AddTransitions(batch) make of f
AddTransitionsOutcome(f, batch, r) ==
    /\ r.fsm.states = f.states
    /\ r.fsm.alphabet = f.alphabet
    /\ r.fsm.initialState = f.initialState
    /\ r.fsm.finalStates = f.finalStates
    /\ r.fsm.currentState = f.currentState
    /\ \A k \in DOMAIN f.transitions :
           k \in DOMAIN r.fsm.transitions /\ r.fsm.transitions[k] = f.transitions[k]
    /\ r.err = Nil =>
           /\ \A e \in EntriesOf(batch, DOMAIN batch) : Registered(r.fsm, e)
           /\ DOMAIN r.fsm.transitions =
                  DOMAIN f.transitions
                      \cup {<<e[1], e[2]>> : e \in EntriesOf(batch, DOMAIN batch)}
    /\ r.err # Nil =>
           \E g \in DOMAIN batch : \E e \in batch[g] :
               /\ r.err = AddTransitionF(r.fsm, e[1], e[2], e[3]).err
               /\ \A d \in EntriesOf(batch, 1..(g - 1)) : Registered(r.fsm, d)
               /\ \A k \in DOMAIN r.fsm.transitions \ DOMAIN f.transitions :
                      \E d \in EntriesOf(batch, 1..(g - 1)) \cup (batch[g] \ {e}) :
                          k = <<d[1], d[2]>> /\ Registered(r.fsm, d)
    /\ r.err = Nil <=>
           /\ \A e \in EntriesOf(batch, DOMAIN batch) :
                  /\ e[1] \in f.states
                  /\ e[3] \in f.states
                  /\ e[2] \in f.alphabet
                  /\ <<e[1], e[2]>> \notin DOMAIN f.transitions
           /\ \A g, h \in DOMAIN batch : \A d \in batch[g], e \in batch[h] :
                  (g # h /\ d[1] = e[1] /\ d[2] = e[2]) => FALSE

\* C14: in every state, AddTransitions with any batch, in whatever order it
\* visits the entries of each group, ends as the claim says
C14_AddTransitionsStopsAtFirstFailure ==
    \A batch \in Batches :
        \A r \in AddTransitionsOutcomes(bfsm, batch) :
            AddTransitionsOutcome(bfsm, batch, r)

\* an AddTransitions has just failed on the entry of its second group, an
\* entry for the pair its first group registered
C14_Witness ==
    /\ last.op = "AddTransitions"
    /\ last.err = ErrAlreadyDefined("q0", "a")
    /\ DOMAIN bfsm.transitions = {<<"q0", "a">>}
    /\ bfsm.transitions[<<"q0", "a">>] = ""
    /\ LET r == AddTransitionsF([bfsm EXCEPT !.transitions = EmptyMap],
                                <<<<"q0", "a", "">>, <<"q0", "a", "q0">>>>)
       IN  r.fsm = bfsm /\ r.err = last.err

(***************************************************************************)
(* C15.  Reset puts the cursor on the initial state, wherever the cursor   *)
(* was; it cannot fail, it changes no other field, and a second Reset      *)
(* changes nothing.                                                        *)
(***************************************************************************)
\* C15: in every state, for every held automaton and every cursor position,
\* Reset leaves the cursor on the initial state and the structure as it was,
\* and Reset after Reset is Reset; and the Reset that has just returned left a
\* cursor on its initial state
C15_ResetIdempotent ==
    /\ \A p \in Range(automata), c \in StateLabels :
           LET f == [heap[p] EXCEPT !.currentState = c]
           IN  /\ CurrentState(ResetF(f)) = f.initialState
               /\ Structure(ResetF(f)) = Structure(f)
               /\ ResetF(ResetF(f)) = ResetF(f)
    /\ last.op = "Reset" =>
           /\ last.err = Nil
           /\ \E p \in Range(automata) :
                  CurrentState(heap[p]) = heap[p].initialState

\* a Reset has just returned on an automaton whose initial state has a
\* transition that leads away from it
C15_Witness ==
    /\ last.op = "Reset"
    /\ \E p \in Range(automata) :
           /\ heap[p].initialState = "q0"
           /\ CurrentState(heap[p]) = "q0"
           /\ <<"q0", "a">> \in DOMAIN heap[p].transitions
           /\ heap[p].transitions[<<"q0", "a">>] = ""

(***************************************************************************)
(* C16.  step(a) checks that a is in the alphabet before it looks the      *)
(* transition up: when a is not in the alphabet it fails with "symbol a    *)
(* not in alphabet"; otherwise, when (currentState, a) has no mapping, it  *)
(* fails with "no transition defined"; both failures leave the cursor      *)
(* where it was.  On success the cursor is the registered target, and no   *)
(* other field changes.                                                    *)
(***************************************************************************)
\* r is what the claim lets step(a) make of f
StepOutcome(f, a, r) ==
    /\ Structure(r.fsm) = Structure(f)
    /\ a \notin f.alphabet =>
           /\ r.err = ErrSymbolNotInAlphabet(a)
           /\ r.fsm.currentState = f.currentState
    /\ (a \in f.alphabet /\ <<f.currentState, a>> \notin DOMAIN f.transitions) =>
           /\ r.err = ErrNoTransition(f.currentState, a)
           /\ r.fsm.currentState = f.currentState
    /\ (a \in f.alphabet /\ <<f.currentState, a>> \in DOMAIN f.transitions) =>
           /\ r.err = Nil
           /\ r.fsm.currentState = f.transitions[<<f.currentState, a>>]

\* C16: in every state, for every held automaton, every cursor position and
\* every symbol, step ends as the claim says; and the step that has just
\* failed returned one of the two errors
C16_StepChecksAlphabetFirst ==
    /\ \A p \in Range(automata), c \in StateLabels,
          a \in StepSymbols \cup SymbolLabels :
           LET f == [heap[p] EXCEPT !.currentState = c]
           IN  StepOutcome(f, a, stepF(f, a))
    /\ (last.op = "step" /\ last.err # Nil) =>
           \E p \in Range(automata), a \in StepSymbols :
               last.err = IF a \notin heap[p].alphabet
                          THEN ErrSymbolNotInAlphabet(a)
                          ELSE ErrNoTransition(CurrentState(heap[p]), a)

\* a step has just failed on a symbol of the alphabet for which the state the
\* cursor is on has no transition
C16_Witness ==
    /\ last.op = "step"
    /\ last.err = ErrNoTransition("q0", "b")
    /\ \E p \in Range(automata) :
           /\ "b" \in heap[p].alphabet
           /\ CurrentState(heap[p]) = "q0"

(***************************************************************************)
(* C17.  Build neither consumes nor damages the Builder: a Build that      *)
(* fails changes no field, a Build that succeeds changes none of states,   *)
(* alphabet, initialState, finalStates and transitions, and a Build made   *)
(* right after a successful one succeeds again.                            *)
(***************************************************************************)
\* C17: every Build step leaves the Builder pointing where it pointed and the
\* five structural fields of its object as they were; when it fails it
\* leaves every object as it was, and when it succeeds Build can only
\* succeed in the state it leaves
C17_BuildKeepsBuilder ==
    [][last'.op = "Build" =>
          /\ builder' = builder
          /\ Structure(bfsm') = Structure(bfsm)
          /\ last'.err # Nil => heap' = heap
          /\ last'.err = Nil => BuildErrors(bfsm') = {Nil}]_vars

\* a Build has just succeeded for the second time on the same Builder
C17_Witness ==
    /\ last.op = "Build"
    /\ last.err = Nil
    /\ Len(automata) = 2
    /\ automata[1] = builder.fsm
    /\ automata[2] = builder.fsm

(***************************************************************************)
(* C18.  AddStates and AddSymbols cannot fail and are idempotent inserts:  *)
(* AddStates(S) makes the state set the old one united with S and changes  *)
(* nothing else, AddSymbols(A) does the same to the alphabet; adding       *)
(* labels that are present changes nothing; and the result does not        *)
(* depend on the order or the grouping of the calls.                       *)
(***************************************************************************)
\* g is f with the labels of sts inserted into its states
StatesInserted(f, sts, g) ==
    /\ g.states = f.states \cup Range(sts)
    /\ g.alphabet = f.alphabet
    /\ g.initialState = f.initialState
    /\ g.finalStates = f.finalStates
    /\ g.transitions = f.transitions
    /\ g.currentState = f.currentState

\* g is f with the labels of syms inserted into its alphabet
SymbolsInserted(f, syms, g) ==
    /\ g.alphabet = f.alphabet \cup Range(syms)
    /\ g.states = f.states
    /\ g.initialState = f.initialState
    /\ g.finalStates = f.finalStates
    /\ g.transitions = f.transitions
    /\ g.currentState = f.currentState

\* the two calls AddStates(u), AddStates(v), in either order, and the one call
\* AddStates(u v) leave the same object
StatesGrouping(f, sts) ==
    \A k \in 0..Len(sts) :
        LET u == SubSeq(sts, 1, k)
            v == SubSeq(sts, k + 1, Len(sts))
        IN  /\ AddStatesF(AddStatesF(f, u), v) = AddStatesF(f, sts)
            /\ AddStatesF(AddStatesF(f, v), u) = AddStatesF(f, sts)

SymbolsGrouping(f, syms) ==
    \A k \in 0..Len(syms) :
        LET u == SubSeq(syms, 1, k)
            v == SubSeq(syms, k + 1, Len(syms))
        IN  /\ AddSymbolsF(AddSymbolsF(f, u), v) = AddSymbolsF(f, syms)
            /\ AddSymbolsF(AddSymbolsF(f, v), u) = AddSymbolsF(f, syms)

\* C18: in every state, AddStates with any list of labels ("q1" being a new
\* label) inserts them and changes nothing else, changes nothing at all when
\* they are all present, and changes nothing when repeated; likewise
\* AddSymbols ("c" being a new symbol); neither returns an error.  And in
\* every state one of the two has just left (a call with no labels can be
\* made anywhere and changes nothing, so these are all the objects there
\* are), the result is the same whether a list is handed over in one call, in
\* two calls, or in two calls the other way round, and AddStates and
\* AddSymbols commute.
C18_AddStatesAddSymbolsInsert ==
    /\ \A sts \in SeqsUpTo(StateLabels \cup {"q1"}, MaxArgs) :
           /\ StatesInserted(bfsm, sts, AddStatesF(bfsm, sts))
           /\ Range(sts) \subseteq bfsm.states => AddStatesF(bfsm, sts) = bfsm
           /\ AddStatesF(AddStatesF(bfsm, sts), sts) = AddStatesF(bfsm, sts)
    /\ \A syms \in SeqsUpTo(SymbolLabels \cup {"c"}, MaxArgs) :
           /\ SymbolsInserted(bfsm, syms, AddSymbolsF(bfsm, syms))
           /\ Range(syms) \subseteq bfsm.alphabet => AddSymbolsF(bfsm, syms) = bfsm
           /\ AddSymbolsF(AddSymbolsF(bfsm, syms), syms) = AddSymbolsF(bfsm, syms)
    /\ last.op \in {"AddStates", "AddSymbols"} =>
           /\ last.err = Nil
           /\ \A sts \in SeqsUpTo(StateLabels \cup {"q1"}, MaxArgs) :
                  StatesGrouping(bfsm, sts)
           /\ \A syms \in SeqsUpTo(SymbolLabels \cup {"c"}, MaxArgs) :
                  SymbolsGrouping(bfsm, syms)
           /\ \A sts \in StateArgs, syms \in SymbolArgs :
                  AddSymbolsF(AddStatesF(bfsm, sts), syms)
                      = AddStatesF(AddSymbolsF(bfsm, syms), sts)

\* an AddStates or AddSymbols has just returned on a Builder that holds both
\* states and both symbols, so that one more call with them changes nothing
C18_Witness ==
    /\ last.op \in {"AddStates", "AddSymbols"}
    /\ bfsm.states = {"", "q0"}
    /\ bfsm.alphabet = {"a", "b"}
    /\ AddStatesF(bfsm, <<"q0", "">>) = bfsm
    /\ AddSymbolsF(bfsm, <<"b", "a">>) = bfsm

(***************************************************************************)
(* C19.  GetStates, GetAlphabet and GetFinalStates are pure reads: each    *)
(* returns a list that holds exactly the members of states, alphabet and   *)
(* finalStates, each member once, and none of them changes a field of the  *)
(* automaton, the cursor included.                                         *)
(***************************************************************************)
\* list holds exactly the members of the set S, each once
Snapshot(list, S) ==
    /\ Range(list) = S
    /\ Len(list) = Cardinality(S)

\* C19: every GetStates, GetAlphabet and GetFinalStates step returns a
\* snapshot of the set it reads, and leaves every object, the Builder and the
\* pointers held as they were
C19_GettersArePureReads ==
    [][/\ last'.op = "GetStates" =>
            /\ UNCHANGED <<heap, builder, automata>>
            /\ \A p \in Range(automata) :
                   GetStates(p) => Snapshot(last'.list, heap[p].states)
       /\ last'.op = "GetAlphabet" =>
            /\ UNCHANGED <<heap, builder, automata>>
            /\ \A p \in Range(automata) :
                   GetAlphabet(p) => Snapshot(last'.list, heap[p].alphabet)
       /\ last'.op = "GetFinalStates" =>
            /\ UNCHANGED <<heap, builder, automata>>
            /\ \A p \in Range(automata) :
                   GetFinalStates(p) => Snapshot(last'.list, heap[p].finalStates)]_vars

\* a GetFinalStates has just returned the one final state of an automaton of
\* two states whose cursor is away from the initial state
C19_Witness ==
    /\ last.op = "GetFinalStates"
    /\ last.list = <<"q0">>
    /\ \E p \in Range(automata) :
           /\ heap[p].states = {"", "q0"}
           /\ heap[p].finalStates = {"q0"}
           /\ CurrentState(heap[p]) # heap[p].initialState

(***************************************************************************)
(* C20.  Referential integrity holds in every reachable state, before and  *)
(* after Build and after operations that failed or were applied in part:   *)
(* the final states are states, every registered pair (s, a) has s among   *)
(* the states and a in the alphabet, every target is a state, and the      *)
(* cursor is the empty label or a state.                                   *)
(***************************************************************************)
\* the object f refers to its own states and symbols only
ReferentialIntegrity(f) ==
    /\ f.finalStates \subseteq f.states
    /\ \A k \in DOMAIN f.transitions :
           /\ k[1] \in f.states
           /\ k[2] \in f.alphabet
           /\ f.transitions[k] \in f.states
    /\ f.currentState = "" \/ f.currentState \in f.states

\* C20: every object, the Builder's and every held automaton's, has
\* referential integrity in every state
C20_ReferentialIntegrity ==
    /\ \A p \in DOMAIN heap : ReferentialIntegrity(heap[p])
    /\ builder.fsm \in DOMAIN heap
    /\ \A p \in Range(automata) : p \in DOMAIN heap

\* after a Build, an AddTransition has just failed on an object that has
\* final states and transitions and whose cursor has been moved
C20_Witness ==
    /\ last.op = "AddTransition"
    /\ last.err # Nil
    /\ automata # <<>>
    /\ bfsm.finalStates # {}
    /\ bfsm.transitions # EmptyMap
    /\ CurrentState(bfsm) # bfsm.initialState
    /\ CurrentState(bfsm) \in bfsm.states

(***************************************************************************)
(* C21.  Through the Builder's operations the initial state recorded is    *)
(* always the empty label or a state, so Build never returns "initial      *)
(* state must be in state set": its fifth check can only fail when the     *)
(* field is written directly.                                              *)
(***************************************************************************)
\* C21: in every state the initial state recorded in the Builder's object is
\* "" or one of its states, "initial state must be in state set" is not among
\* the errors Build can return, and the Build that has just returned did not
\* return it; while with a label that is not a state written into the field
\* ("q1" is never a state) Build returns it whenever the four checks before
\* pass
C21_InitialStateCheckUnreachable ==
    /\ bfsm.initialState = "" \/ bfsm.initialState \in bfsm.states
    /\ ErrInitialNotInStates \notin BuildErrors(bfsm)
    /\ last.op = "Build" => last.err # ErrInitialNotInStates
    /\ LET g == [bfsm EXCEPT !.initialState = "q1"]
       IN  (g.states # {} /\ g.alphabet # {} /\ g.finalStates # {}) =>
               BuildErrors(g) = {ErrInitialNotInStates}

\* a Build has just failed past its first five checks, on a Builder whose
\* initial state was recorded before a SetInitialState failed
C21_Witness ==
    /\ last.op = "Build"
    /\ last.err = ErrNotDefined("q0", "a")
    /\ bfsm.initialState = "q0"
    /\ bfsm.states = {"q0"}
    /\ SetInitialStateF(bfsm, "").err = ErrStateNotInSet("")

(***************************************************************************)
(* C22.  For every label q, the empty one included, once SetInitialState(q)*)
(* has succeeded no later Build fails with "FSM must have an initial       *)
(* state".                                                                 *)
(***************************************************************************)
\* C22: the nearest of the later Builds, the one made right after a
\* SetInitialState that succeeded, does not return "FSM must have an initial
\* state"
C22_NoMissingInitialStateAfterSet ==
    [][(last.op = "SetInitialState" /\ last.err = Nil /\ last'.op = "Build") =>
           last'.err # ErrNoInitialState]_vars

====
